---- MODULE Spec2Model ----
(***************************************************************************)
(* Feed synchronization engine of rss-feeds-api: the manual sync route,    *)
(* RssService.synchronizeFeed / synchronizeAllFeeds, ArticleDao.bulkCreate *)
(* and RssFeedDao.update over one shared SQLite connection.                *)
(*                                                                         *)
(* One action is the completion of one awaited call (the database          *)
(* statement or the HTTP fetch runs) followed by the handler's code up to  *)
(* the point where it issues its next awaited call.                        *)
(***************************************************************************)
EXTENDS Integers, Sequences, FiniteSets, TLC

(***************************************************************************)
(* Bounds of the model                                                     *)
(***************************************************************************)
MaxDocs == 2
MaxTicks == 2

(***************************************************************************)
(* Program constants                                                       *)
(***************************************************************************)
MinIntervalMs == 5 * 60 * 1000
MsPerMinute == 1000 * 60
TickMs == MinIntervalMs \div 2

(***************************************************************************)
(* JavaScript / SQL values                                                 *)
(***************************************************************************)
Undef == "undefined"
Null == "NULL"

NullTime == [tag |-> "null", ms |-> 0]
UndefTime == [tag |-> "undef", ms |-> 0]
InvalidDate == [tag |-> "invalid", ms |-> 0]
DateObj(ms) == [tag |-> "date", ms |-> ms]
IsoString(ms) == [tag |-> "iso", ms |-> ms]

\* new Date(s) for a date string s read from a feed document
PubDateStrings == {"Mon, 01 Jan 2024 00:00:00 GMT", "yesterday-ish"}
NewDateFromString(s) ==
    IF s = "Mon, 01 Jan 2024 00:00:00 GMT" THEN DateObj(1000)
    ELSE InvalidDate

\* new Date(v) for a last_fetched column value v (an ISO string)
NewDateFromColumn(v) ==
    IF v.tag = "iso" \/ v.tag = "date" THEN DateObj(v.ms) ELSE InvalidDate

\* d.toISOString(): throws RangeError on an invalid date
ToISOStringThrows(d) == d.tag = "invalid"
ToISOString(d) == IsoString(d.ms)

\* a value is truthy unless it is null / undefined
TruthyTime(v) == v.tag \notin {"null", "undef"}

\* ceil(x / d) for x > 0, d > 0, as Math.ceil of the exact quotient
CeilDiv(x, d) == (x + d - 1) \div d

(***************************************************************************)
(* Feeds                                                                   *)
(***************************************************************************)
FeedIds == {1, 2}
MissingFeedId == 99999
Users == {1, 2}

NoFeed == [id |-> 0, title |-> Null, url |-> Null, description |-> Null,
           category |-> Null, last_fetched |-> NullTime, user_id |-> 0]

InitFeed(id) == [id |-> id, title |-> "Test Feed",
                 url |-> IF id = 1 THEN "https://a.example/rss" ELSE "https://b.example/rss",
                 description |-> Null, category |-> Null,
                 last_fetched |-> NullTime, user_id |-> id]

\* isValidUrl: new URL(str) does not throw
ValidUrls == {"https://a.example/rss", "https://b.example/rss"}
isValidUrl(str) == str \in ValidUrls

\* RssFeedDao.findById: SELECT * FROM rss_feeds WHERE id = ?
findById(F, id) == IF id \in DOMAIN F THEN F[id] ELSE NoFeed

(***************************************************************************)
(* Feed documents (what parser.parseURL returns) and normalization         *)
(***************************************************************************)
LinkA == "https://a.example/1"
LinkB == "https://a.example/2"

Item(link, title, guid, pubDate) ==
    [link |-> link, title |-> title, guid |-> guid, pubDate |-> pubDate,
     description |-> Undef, author |-> Undef, content |-> Undef]

FullItem == [link |-> LinkB, title |-> "Two", guid |-> "guid-2",
             pubDate |-> "Mon, 01 Jan 2024 00:00:00 GMT",
             description |-> "desc", author |-> "ann", content |-> "<p>two</p>"]

Docs == {
    << Item(LinkA, "One", Undef, Undef), FullItem >>,
    << Item(LinkA, "One (edited)", "guid-1", Undef), Item(LinkA, Undef, Undef, Undef) >>,
    << Item(Undef, "No link", "guid-3", Undef), Item(Undef, "No key", Undef, Undef) >>,
    << Item(LinkB, "Two", Undef, Undef), Item(LinkA, "One", Undef, "yesterday-ish") >>
}

\* the item => ({...}) mapping of synchronizeFeed / synchronizeAllFeeds
NormalizeItem(item, feedId) ==
    [link |-> item.link,
     feed_id |-> feedId,
     title |-> IF item.title = Undef THEN "No title" ELSE item.title,
     description |-> item.description,
     pub_date |-> IF item.pubDate = Undef THEN UndefTime
                  ELSE NewDateFromString(item.pubDate),
     author |-> item.author,
     content |-> item.content,
     guid |-> IF item.guid # Undef THEN item.guid ELSE item.link]

NormalizeItems(items, feedId) ==
    [j \in 1..Len(items) |-> NormalizeItem(items[j], feedId)]

(***************************************************************************)
(* articles table: link TEXT PRIMARY KEY (NULL allowed by SQLite),         *)
(* feed_id NOT NULL, title NOT NULL                                        *)
(***************************************************************************)
\* binding a JS value to a statement parameter: undefined binds NULL
BindText(v) == IF v = Undef THEN Null ELSE v

\* evaluating the parameter array of the INSERT throws on an invalid date
InsertParamsThrow(article) ==
    article.pub_date.tag # "undef" /\ ToISOStringThrows(article.pub_date)

InsertParams(article) ==
    [link |-> BindText(article.link),
     feed_id |-> article.feed_id,
     title |-> BindText(article.title),
     description |-> BindText(article.description),
     pub_date |-> IF article.pub_date.tag = "undef" THEN NullTime
                  ELSE ToISOString(article.pub_date),
     author |-> BindText(article.author),
     content |-> BindText(article.content),
     guid |-> BindText(article.guid)]

ConstraintViolated(A, row) ==
    \/ row.title = Null
    \/ row.link # Null /\ \E j \in 1..Len(A) : A[j].link = row.link

\* a bug such as INSERT OR REPLACE: the stored row is overwritten
InsertOrReplace(A, row) ==
    IF row.title = Null THEN A
    ELSE IF row.link # Null /\ \E j \in 1..Len(A) : A[j].link = row.link
         THEN [j \in 1..Len(A) |-> IF A[j].link = row.link THEN row ELSE A[j]]
         ELSE Append(A, row)

\* INSERT OR IGNORE INTO articles (...) VALUES (...)
InsertOrIgnore(A, row) ==
    IF ConstraintViolated(A, row) THEN A ELSE Append(A, row)

(***************************************************************************)
(* Sync gates                                                              *)
(***************************************************************************)
\* manual route: !forceSync && feed.last_fetched && timeSinceLastSync < minInterval
ManualGateRejects_lenient(forceSync, last_fetched, clock) ==
    /\ ~forceSync
    /\ TruthyTime(last_fetched)
    /\ clock - NewDateFromColumn(last_fetched).ms + TickMs < MinIntervalMs

ManualGateRejects(forceSync, last_fetched, clock) ==
    /\ ~forceSync
    /\ TruthyTime(last_fetched)
    /\ clock - NewDateFromColumn(last_fetched).ms < MinIntervalMs

\* Math.ceil((minInterval - timeSinceLastSync) / 1000 / 60), in minutes
RemainingTime_floor(last_fetched, clock) ==
    (MinIntervalMs - (clock - NewDateFromColumn(last_fetched).ms)) \div MsPerMinute

RemainingTime(last_fetched, clock) ==
    CeilDiv(MinIntervalMs - (clock - NewDateFromColumn(last_fetched).ms), MsPerMinute)

\* a global pass that synchronizes every feed whatever its timestamp
shouldSync_forced(last_fetched, clock) ==
    \/ ~TruthyTime(last_fetched)
    \/ clock - NewDateFromColumn(last_fetched).ms >= 0

\* global pass: !feed.last_fetched || Date.now() - lastFetched > 5 * 60 * 1000
shouldSync(last_fetched, clock) ==
    \/ ~TruthyTime(last_fetched)
    \/ clock - NewDateFromColumn(last_fetched).ms > MinIntervalMs

(***************************************************************************)
(* RssFeedDao.update                                                       *)
(***************************************************************************)
\* feed.last_fetched?.toISOString() throws TypeError when last_fetched is a
\* string (a value read from the table) and RangeError on an invalid date
UpdateParamsThrow(feed) ==
    feed.last_fetched.tag \in {"iso", "invalid"}

UpdateParams(id, feed) ==
    [id |-> id, title |-> feed.title, url |-> feed.url,
     description |-> feed.description, category |-> feed.category,
     last_fetched |-> IF feed.last_fetched.tag = "date"
                      THEN ToISOString(feed.last_fetched) ELSE NullTime,
     user_id |-> feed.user_id]

NoParams == UpdateParams(0, NoFeed)

\* an UPDATE that leaves last_fetched out of its SET list
UpdateFeed_nostamp(F, u) ==
    IF u.id \in DOMAIN F /\ F[u.id].user_id = u.user_id
    THEN [F EXCEPT ![u.id] = [@ EXCEPT !.title = u.title, !.url = u.url,
                                       !.description = u.description,
                                       !.category = u.category]]
    ELSE F

\* UPDATE rss_feeds SET title, url, description, category, last_fetched
\*  WHERE id = ? AND user_id = ?
UpdateFeed(F, u) ==
    IF u.id \in DOMAIN F /\ F[u.id].user_id = u.user_id
    THEN [F EXCEPT ![u.id] = [@ EXCEPT !.title = u.title, !.url = u.url,
                                       !.description = u.description,
                                       !.category = u.category,
                                       !.last_fetched = u.last_fetched]]
    ELSE F

(***************************************************************************)
(* Error messages and responses                                            *)
(***************************************************************************)
MsgSyncFailed == "Failed to synchronize feed"
MsgGlobalFailed == "Failed to perform global synchronization"
MsgRecent == "Feed was recently synchronized"
MsgNotFound == "RSS feed not found not found"
MsgNotOwner == "You can only sync your own feeds"
MsgBadUrl == "Feed URL is invalid"
MsgSynced == "Feed synchronized successfully"
MsgGlobalDone == "Global synchronization completed"
MsgFetchFailed == "Could not fetch RSS feed. Please verify the feed URL"
MsgBadFormat == "Invalid RSS feed format"

ErrStatus404 == "Status code 404"
ErrNotRss == "Feed not recognized as RSS 1 or 2."
ErrIo == "SQLITE_IOERR: disk I/O error"
ErrNested == "SQLITE_ERROR: cannot start a transaction within a transaction"
ErrNoTx == "SQLITE_ERROR: cannot commit - no transaction is active"
ErrNoTxRollback == "SQLITE_ERROR: cannot rollback - no transaction is active"
ErrInvalidTime == "Invalid time value"
ErrNotAFunction == "feed.last_fetched?.toISOString is not a function"
ErrFeedNotFound == "Feed not found"

\* error.message.includes(needle) over the messages above
MessageIncludes(message, needle) ==
    <<message, needle>> \in {<<"FETCH_ERROR: unreachable", "FETCH_ERROR">>,
                             <<"PARSE_ERROR: malformed", "PARSE_ERROR">>}

NoReport == [totalFeeds |-> 0, successfulSyncs |-> 0, failedSyncs |-> 0,
             newArticles |-> 0, results |-> << >>, startTime |-> 0, endTime |-> 0]

Response(status, message) ==
    [status |-> status, message |-> message, articlesCount |-> 0,
     remaining |-> 0, report |-> NoReport]

NoResponse == Response(0, "")

MsgFeedNotFound == "RSS feed not found"
MsgUpdateOwn == "You can only update your own feeds"
MsgDeleteOwn == "You can only delete your own feeds"
MsgUpdateFailed == "Failed to update RSS feed"
MsgDeleteFailed == "Failed to delete RSS feed"
MsgUpdated == "RSS feed updated successfully"
MsgDeleted == "RSS feed deleted successfully"

\* req.body of PUT/PATCH /feeds/:id; a field the client left out is undefined
NoBody == [title |-> Undef, url |-> Undef, description |-> Undef, category |-> Undef]

(***************************************************************************)
(* State                                                                   *)
(***************************************************************************)
VARIABLES
    now,        \* the wall clock, in ms
    feeds,      \* rss_feeds table: id -> row
    articles,   \* articles table: sequence of rows in insertion order
    tx,         \* the connection's open transaction and its rollback image
    proc,       \* the request handlers: position, locals and response
    served,     \* number of documents the feed servers have delivered so far
    hist        \* history: when each feed's last successful manual sync responded
                \* (a handler notes the value it found on arrival in proc[p].prior)
                \* and, when hist.track is set, the document that sync ingested
                \* (lastDoc) or, if the feed's last pass was cut short between
                \* its bulk write and its timestamp update, that pass's document (cut)

vars == <<now, feeds, articles, tx, proc, served, hist>>

\* the request handlers that exist; a server that handles one request at a
\* time has one, a server with overlapping requests has two
Procs == DOMAIN proc

\* a document remembered from an earlier pass (none yet: known = FALSE)
NoDoc == [known |-> FALSE, items |-> << >>]

NoHist == [manualOk |-> [id \in FeedIds |-> NullTime],
           track |-> FALSE,
           lastDoc |-> [id \in FeedIds |-> NoDoc],
           cut |-> [id \in FeedIds |-> NoDoc]]

NoTx == [active |-> FALSE, owner |-> 0, articles |-> << >>, feeds |-> << >>]

\* the last sync pass a handler ran: what it saw when it started and ended
NoPass == [feedId |-> 0, outcome |-> "none", count |-> 0,
           A0 |-> << >>, F0 |-> << >>, A1 |-> << >>, F1 |-> << >>,
           t0 |-> 0, t1 |-> 0, doc |-> << >>]

IdleProc == [pc |-> "idle", kind |-> "none", user |-> 0, feedId |-> 0,
             force |-> FALSE, rfeed |-> NoFeed, feed |-> NoFeed,
             feedList |-> << >>, i |-> 0, batch |-> << >>, k |-> 0,
             err |-> "", count |-> 0, upd |-> NoParams, results |-> << >>,
             total |-> 0, startTime |-> 0, resp |-> NoResponse,
             gates |-> << >>, pass |-> NoPass, fetched |-> 0,
             round |-> 0, first |-> NoPass, routeAt |-> 0,
             prior |-> NullTime, priorDoc |-> NoDoc, priorCut |-> NoDoc,
             body |-> NoBody]

Init ==
    /\ now = 0
    /\ feeds = [id \in FeedIds |-> InitFeed(id)]
    /\ articles = << >>
    /\ tx = NoTx
    /\ proc = [p \in {1} |-> IdleProc]
    /\ served = 0
    /\ hist = NoHist

\* what a reader outside the open transaction is guaranteed to keep
Committed == IF tx.active THEN tx.articles ELSE articles

\* a handler starts when the previous one has responded
CanStart(p) == proc[p].pc = "idle"

Respond(r, resp) == [r EXCEPT !.pc = "done", !.resp = resp]

EndPass(r, outcome, count, A, F, clock) ==
    [r EXCEPT !.pass = [@ EXCEPT !.outcome = outcome, !.count = count,
                                 !.A1 = A, !.F1 = F, !.t1 = clock]]

BeginPass(r, feedId, A, F, clock) ==
    [r EXCEPT !.pass = [NoPass EXCEPT !.feedId = feedId, !.outcome = "running",
                                      !.A0 = A, !.F0 = F, !.t0 = clock]]

(***************************************************************************)
(* The clock                                                               *)
(***************************************************************************)
\* one tick is far longer than a statement on the local database file, so
\* the clock is seen to advance between requests and during a fetch
Tick ==
    /\ now < MaxTicks * TickMs
    /\ \A p \in Procs : proc[p].pc \in {"idle", "sf_parse", "ga_parse"}
    /\ now' = now + TickMs
    /\ UNCHANGED <<feeds, articles, tx, proc, served, hist>>

(***************************************************************************)
(* parser.parseURL(feed.url): the fetch fails, the body does not parse, or *)
(* the document's items are returned                                       *)
(***************************************************************************)
ParseFailures ==
    {[ok |-> FALSE, cause |-> "fetch", err |-> ErrStatus404, items |-> << >>],
     [ok |-> FALSE, cause |-> "parse", err |-> ErrNotRss, items |-> << >>]}

ParseOutcomes(n) ==
    ParseFailures \cup
    (IF n < MaxDocs THEN {[ok |-> TRUE, cause |-> "", err |-> "", items |-> d] : d \in Docs}
     ELSE {})

Served(n, out) == IF out.ok THEN n + 1 ELSE n

(***************************************************************************)
(* Manual sync: POST /feeds/:feedId/sync and RssService.synchronizeFeed    *)
(***************************************************************************)
\* catch (error) { throw new DatabaseError('Failed to synchronize feed') }
SfCatch(message) == MsgSyncFailed

\* the route's translation of an error thrown by synchronizeFeed
RouteSyncError(message) ==
    IF MessageIncludes(message, "FETCH_ERROR") THEN Response(400, MsgFetchFailed)
    ELSE IF MessageIncludes(message, "PARSE_ERROR") THEN Response(400, MsgBadFormat)
    ELSE Response(500, MsgSyncFailed)

ManualFail(r, message, outcome, A, F, clock) ==
    Respond(EndPass(r, outcome, 0, A, F, clock), RouteSyncError(SfCatch(message)))

GateEval(site, feedId, forceSync, last_fetched, clock, eligible) ==
    [site |-> site, feedId |-> feedId, force |-> forceSync,
     last_fetched |-> last_fetched, now |-> clock, eligible |-> eligible]

StartManualSync(p) ==
    /\ CanStart(p)
    /\ \E user \in Users, feedId \in FeedIds \cup {MissingFeedId}, forceSync \in BOOLEAN :
          proc' = [proc EXCEPT ![p] =
                     BeginPass([IdleProc EXCEPT !.pc = "route_findById",
                                                !.kind = "manual", !.user = user,
                                                !.feedId = feedId, !.force = forceSync,
                                                !.prior = IF feedId \in FeedIds
                                                          THEN hist.manualOk[feedId]
                                                          ELSE NullTime,
                                                !.priorDoc = IF feedId \in FeedIds
                                                             THEN hist.lastDoc[feedId]
                                                             ELSE NoDoc,
                                                !.priorCut = IF feedId \in FeedIds
                                                             THEN hist.cut[feedId]
                                                             ELSE NoDoc],
                               feedId, articles, feeds, now)]
    /\ UNCHANGED <<now, feeds, articles, tx, served, hist>>

\* a route that forgets the existence check and calls the service anyway
RouteChecks_nolookup(r, feed, clock, A, F) ==
    IF feed # NoFeed /\ feed.user_id # r.user
    THEN Respond(EndPass(r, "unauthorized", 0, A, F, clock), Response(401, MsgNotOwner))
    ELSE [r EXCEPT !.pc = "sf_findById", !.rfeed = feed]

\* the route after findById: existence, ownership, URL, gate
RouteChecks(r, feed, clock, A, F) ==
    IF feed = NoFeed
    THEN Respond(EndPass(r, "notfound", 0, A, F, clock), Response(404, MsgNotFound))
    ELSE IF feed.user_id # r.user
    THEN Respond(EndPass(r, "unauthorized", 0, A, F, clock), Response(401, MsgNotOwner))
    ELSE IF ~isValidUrl(feed.url)
    THEN Respond(EndPass(r, "badurl", 0, A, F, clock), Response(400, MsgBadUrl))
    ELSE IF ManualGateRejects(r.force, feed.last_fetched, clock)
    THEN Respond(EndPass([r EXCEPT !.gates = Append(@,
                              GateEval("manual", feed.id, r.force, feed.last_fetched,
                                       clock, FALSE))],
                         "gated", 0, A, F, clock),
                 [Response(400, MsgRecent) EXCEPT
                     !.remaining = RemainingTime(feed.last_fetched, clock)])
    ELSE [r EXCEPT !.pc = "sf_findById", !.rfeed = feed,
                   !.gates = Append(@, GateEval("manual", feed.id, r.force,
                                                feed.last_fetched, clock, TRUE))]

RouteFindById(p) ==
    /\ proc[p].pc = "route_findById"
    /\ proc' = [proc EXCEPT ![p] =
                  RouteChecks([@ EXCEPT !.routeAt = now], findById(feeds, @.feedId),
                              now, articles, feeds)]
    /\ UNCHANGED <<now, feeds, articles, tx, served, hist>>

SfFindById(p) ==
    /\ proc[p].pc = "sf_findById"
    /\ LET feed == findById(feeds, proc[p].feedId) IN
         proc' = [proc EXCEPT ![p] =
                    IF feed = NoFeed
                    THEN ManualFail(@, ErrFeedNotFound, "notfound", articles, feeds, now)
                    ELSE [@ EXCEPT !.pc = "sf_parse", !.feed = feed]]
    /\ UNCHANGED <<now, feeds, articles, tx, served, hist>>

\* a pass that stamps the feed before it knows whether the fetch succeeded
SfParse_stamp(p) ==
    /\ proc[p].pc = "sf_parse"
    /\ feeds' = UpdateFeed(feeds, UpdateParams(proc[p].feedId,
                    [proc[p].feed EXCEPT !.last_fetched = DateObj(now)]))
    /\ \E out \in ParseOutcomes(served) :
          /\ served' = Served(served, out)
          /\ proc' = [proc EXCEPT ![p] =
                     IF out.ok
                     THEN [@ EXCEPT !.pc = "bc_begin", !.fetched = @ + 1,
                                    !.batch = NormalizeItems(out.items, proc[p].feedId),
                                    !.pass = [@ EXCEPT !.doc = out.items]]
                     ELSE ManualFail([@ EXCEPT !.fetched = @ + 1], out.err, out.cause,
                                     articles, feeds', now)]
    /\ UNCHANGED <<now, articles, tx, hist>>

\* const parsedFeed = await this.parser.parseURL(feed.url); items.map(...)
SfParse(p) ==
    /\ proc[p].pc = "sf_parse"
    /\ \E out \in ParseOutcomes(served) :
          /\ served' = Served(served, out)
          /\ proc' = [proc EXCEPT ![p] =
                     IF out.ok
                     THEN [@ EXCEPT !.pc = "bc_begin", !.fetched = @ + 1,
                                    !.batch = NormalizeItems(out.items, proc[p].feedId),
                                    !.pass = [@ EXCEPT !.doc = out.items]]
                     ELSE ManualFail([@ EXCEPT !.fetched = @ + 1], out.err, out.cause,
                                     articles, feeds, now)]
    /\ UNCHANGED <<now, feeds, articles, tx, hist>>

(***************************************************************************)
(* Global sync: POST /system/sync and RssService.synchronizeAllFeeds       *)
(***************************************************************************)
SyncResult(feed, articlesCount, status, error) ==
    [feedId |-> feed.id, url |-> feed.url, articlesCount |-> articlesCount,
     status |-> status, error |-> error]

CountStatus(results, status) ==
    Cardinality({j \in 1..Len(results) : results[j].status = status})

\* a report whose failure count forgets to subtract the successes
GlobalReport_nosub(r, clock) ==
    LET successfulSyncs == CountStatus(r.results, "success") IN
      [totalFeeds |-> Len(r.feedList),
       successfulSyncs |-> successfulSyncs,
       failedSyncs |-> Len(r.feedList),
       newArticles |-> r.total,
       results |-> r.results,
       startTime |-> r.startTime,
       endTime |-> clock]

\* the report built after the loop, sent by the route with status 200
GlobalReport(r, clock) ==
    LET successfulSyncs == CountStatus(r.results, "success") IN
      [totalFeeds |-> Len(r.feedList),
       successfulSyncs |-> successfulSyncs,
       failedSyncs |-> Len(r.feedList) - successfulSyncs,
       newArticles |-> r.total,
       results |-> r.results,
       startTime |-> r.startTime,
       endTime |-> clock]

\* for (const feed of feeds) from index i up to the next awaited call:
\* gated feeds get a success result with 0 articles and the loop continues
RECURSIVE GaLoop(_, _, _, _, _)
GaLoop(r, i, A, F, clock) ==
    IF i > Len(r.feedList)
    THEN Respond(r, [Response(200, MsgGlobalDone) EXCEPT !.report = GlobalReport(r, clock)])
    ELSE LET feed == r.feedList[i]
             go == shouldSync(feed.last_fetched, clock)
             logged == [r EXCEPT !.gates = Append(@, GateEval("global", feed.id, FALSE,
                                                   feed.last_fetched, clock, go))]
         IN IF ~go
            THEN GaLoop([logged EXCEPT !.results = Append(@, SyncResult(feed, 0, "success", ""))],
                        i + 1, A, F, clock)
            ELSE [BeginPass(logged, feed.id, A, F, clock) EXCEPT
                     !.pc = "ga_parse", !.i = i, !.feed = feed, !.feedId = feed.id]

\* a loop without the per-feed try/catch: the outer catch ends the pass
GaCatch_abort(r, message, outcome, A, F, clock) ==
    Respond(EndPass(r, outcome, 0, A, F, clock), Response(500, MsgGlobalFailed))

\* a catch that tries the failed feed again
GaCatch_retry(r, message, outcome, A, F, clock) ==
    GaLoop([EndPass(r, outcome, 0, A, F, clock) EXCEPT
               !.results = Append(@, SyncResult(r.feed, 0, "error", message))],
           r.i, A, F, clock)

\* the per-feed catch: an error result, then the next feed
GaCatch(r, message, outcome, A, F, clock) ==
    GaLoop([EndPass(r, outcome, 0, A, F, clock) EXCEPT
               !.results = Append(@, SyncResult(r.feed, 0, "error", message))],
           r.i + 1, A, F, clock)

\* SELECT * FROM rss_feeds, in rowid order
findAll(F) ==
    LET ids == SelectSeq([j \in 1..Cardinality(FeedIds) |-> j], LAMBDA j : j \in DOMAIN F)
    IN [j \in 1..Len(ids) |-> F[ids[j]]]

StartGlobalSync(p) ==
    /\ CanStart(p)
    /\ proc' = [proc EXCEPT ![p] = [IdleProc EXCEPT !.pc = "ga_findAll",
                                                     !.kind = "global",
                                                     !.startTime = now]]
    /\ UNCHANGED <<now, feeds, articles, tx, served, hist>>

GaFindAll(p) ==
    /\ proc[p].pc = "ga_findAll"
    /\ \E fail \in BOOLEAN :
          proc' = [proc EXCEPT ![p] =
                     IF fail
                     THEN Respond(@, Response(500, MsgGlobalFailed))
                     ELSE GaLoop([@ EXCEPT !.feedList = findAll(feeds)], 1,
                                 articles, feeds, now)]
    /\ UNCHANGED <<now, feeds, articles, tx, served, hist>>

GaParse(p) ==
    /\ proc[p].pc = "ga_parse"
    /\ \E out \in ParseOutcomes(served) :
          /\ served' = Served(served, out)
          /\ proc' = [proc EXCEPT ![p] =
                     IF out.ok
                     THEN [@ EXCEPT !.pc = "bc_begin", !.fetched = @ + 1,
                                    !.batch = NormalizeItems(out.items, proc[p].feed.id),
                                    !.pass = [@ EXCEPT !.doc = out.items]]
                     ELSE GaCatch([@ EXCEPT !.fetched = @ + 1], out.err, out.cause,
                                  articles, feeds, now)]
    /\ UNCHANGED <<now, feeds, articles, tx, hist>>

(***************************************************************************)
(* ArticleDao.bulkCreate, statement by statement                           *)
(***************************************************************************)
\* bulkCreate returned count to its caller, which issues RssFeedDao.update
BulkReturned(r, count, A, F, clock) ==
    LET upd == UpdateParams(r.feed.id, [r.feed EXCEPT !.last_fetched = DateObj(clock)])
    IN CASE r.kind = "manual" ->
              [r EXCEPT !.pc = "sf_update", !.count = count, !.upd = upd]
         [] r.kind = "global" ->
              [r EXCEPT !.pc = "ga_update", !.count = count, !.upd = upd,
                        !.total = @ + count]
         [] OTHER ->
              [EndPass(r, "ok", count, A, F, clock) EXCEPT !.pc = "dao_returned"]

\* bulkCreate threw message to its caller
BulkThrew(r, message, A, F, clock) ==
    CASE r.kind = "manual" -> ManualFail(r, message, "storage", A, F, clock)
      [] r.kind = "global" -> GaCatch(r, message, "storage", A, F, clock)
      [] OTHER ->
              [EndPass(r, "storage", 0, A, F, clock) EXCEPT
                  !.pc = "dao_returned", !.resp = Response(0, message)]

\* the for loop at article k: evaluate the parameters and issue the INSERT,
\* or issue COMMIT after the last article, or ROLLBACK when evaluation throws
BcLoop(r, k) ==
    IF k > Len(r.batch) THEN [r EXCEPT !.pc = "bc_commit", !.k = k]
    ELSE IF InsertParamsThrow(r.batch[k])
         THEN [r EXCEPT !.pc = "bc_rollback", !.k = k, !.err = ErrInvalidTime]
         ELSE [r EXCEPT !.pc = "bc_insert", !.k = k]

\* await this.db.run('BEGIN TRANSACTION'), before the try block
BcBegin(p) ==
    /\ proc[p].pc = "bc_begin"
    /\ IF tx.active
       THEN /\ proc' = [proc EXCEPT ![p] = BulkThrew(@, ErrNested, articles, feeds, now)]
            /\ tx' = tx
       ELSE /\ tx' = [active |-> TRUE, owner |-> p, articles |-> articles, feeds |-> feeds]
            /\ proc' = [proc EXCEPT ![p] = BcLoop(@, 1)]
    /\ UNCHANGED <<now, feeds, articles, served, hist>>

\* how a db.run of an INSERT can end: the row is handled; the statement
\* fails and the open transaction stays open; or the statement fails and
\* SQLite has rolled the open transaction back by itself (as it may on
\* SQLITE_FULL, SQLITE_IOERR, SQLITE_NOMEM, SQLITE_BUSY)
InsertOutcomes == {"done", "failed", "failed_rolled_back"}

\* await this.db.run('INSERT OR IGNORE ...'): the statement runs or fails
BcInsert(p) ==
    /\ proc[p].pc = "bc_insert"
    /\ \E outcome \in InsertOutcomes :
          CASE outcome = "done" ->
                 /\ articles' = InsertOrIgnore(articles, InsertParams(proc[p].batch[proc[p].k]))
                 /\ proc' = [proc EXCEPT ![p] = BcLoop(@, @.k + 1)]
                 /\ UNCHANGED <<feeds, tx>>
            [] outcome = "failed" ->
                 /\ proc' = [proc EXCEPT ![p] = [@ EXCEPT !.pc = "bc_rollback", !.err = ErrIo]]
                 /\ UNCHANGED <<articles, feeds, tx>>
            [] outcome = "failed_rolled_back" ->
                 /\ tx.active
                 /\ articles' = tx.articles
                 /\ feeds' = tx.feeds
                 /\ tx' = NoTx
                 /\ proc' = [proc EXCEPT ![p] = [@ EXCEPT !.pc = "bc_rollback", !.err = ErrIo]]
    /\ UNCHANGED <<now, served, hist>>

\* what bulkCreate resolves to: return articles.length
BulkCreateResult(r) == Len(r.batch)

\* await this.db.run('COMMIT'); return articles.length
BcCommit(p) ==
    /\ proc[p].pc = "bc_commit"
    /\ IF tx.active
       THEN /\ tx' = NoTx
            /\ proc' = [proc EXCEPT ![p] =
                          BulkReturned(@, BulkCreateResult(@),
                                       articles, feeds, now)]
       ELSE /\ tx' = tx
            /\ proc' = [proc EXCEPT ![p] = [@ EXCEPT !.pc = "bc_rollback", !.err = ErrNoTx]]
    /\ UNCHANGED <<now, feeds, articles, served, hist>>

\* a catch block that rethrows without rolling back
BcRollback_keep(p) ==
    /\ proc[p].pc = "bc_rollback"
    /\ proc' = [proc EXCEPT ![p] = BulkThrew(@, @.err, articles, feeds, now)]
    /\ UNCHANGED <<now, feeds, articles, tx, served, hist>>

\* catch (error) { await this.db.run('ROLLBACK'); throw error; }
BcRollback(p) ==
    /\ proc[p].pc = "bc_rollback"
    /\ IF tx.active
       THEN /\ articles' = tx.articles
            /\ feeds' = tx.feeds
            /\ tx' = NoTx
            /\ proc' = [proc EXCEPT ![p] = BulkThrew(@, @.err, articles', feeds', now)]
       ELSE /\ UNCHANGED <<articles, feeds, tx>>
            /\ proc' = [proc EXCEPT ![p] = BulkThrew(@, ErrNoTxRollback, articles, feeds, now)]
    /\ UNCHANGED <<now, served, hist>>

(***************************************************************************)
(* RssFeedDao.update(feedId, {...feed, last_fetched: new Date()})          *)
(***************************************************************************)
SfUpdate(p) ==
    /\ proc[p].pc = "sf_update"
    /\ \E fail \in BOOLEAN :
          IF fail
          THEN /\ feeds' = feeds
               /\ hist' = [hist EXCEPT
                              !.cut[proc[p].feedId] =
                                  IF hist.track
                                  THEN [known |-> TRUE, items |-> proc[p].pass.doc]
                                  ELSE @]
               /\ proc' = [proc EXCEPT ![p] = ManualFail(@, ErrIo, "update", articles, feeds, now)]
          ELSE /\ feeds' = UpdateFeed(feeds, proc[p].upd)
               /\ hist' = [hist EXCEPT
                              !.manualOk[proc[p].feedId] = DateObj(now),
                              !.lastDoc[proc[p].feedId] =
                                  IF hist.track
                                  THEN [known |-> TRUE, items |-> proc[p].pass.doc]
                                  ELSE @,
                              !.cut[proc[p].feedId] = NoDoc]
               /\ proc' = [proc EXCEPT ![p] =
                             Respond(EndPass(@, "ok", @.count, articles, feeds', now),
                                     [Response(200, MsgSynced) EXCEPT
                                         !.articlesCount = proc[p].count])]
    /\ UNCHANGED <<now, articles, tx, served>>

\* a success path that forgets results.push
GaUpdate_nopush(p) ==
    /\ proc[p].pc = "ga_update"
    /\ \E fail \in BOOLEAN :
          IF fail
          THEN /\ feeds' = feeds
               /\ proc' = [proc EXCEPT ![p] = GaCatch(@, ErrIo, "update", articles, feeds, now)]
          ELSE /\ feeds' = UpdateFeed(feeds, proc[p].upd)
               /\ proc' = [proc EXCEPT ![p] =
                             GaLoop(EndPass(@, "ok", @.count, articles, feeds', now),
                                    @.i + 1, articles, feeds', now)]
    /\ UNCHANGED <<now, articles, tx, served, hist>>

\* await rssFeeds.update(feed.id, {...feed, last_fetched: new Date()});
\* results.push({... status: 'success'})
GaUpdate(p) ==
    /\ proc[p].pc = "ga_update"
    /\ \E fail \in BOOLEAN :
          IF fail
          THEN /\ feeds' = feeds
               /\ proc' = [proc EXCEPT ![p] = GaCatch(@, ErrIo, "update", articles, feeds, now)]
          ELSE /\ feeds' = UpdateFeed(feeds, proc[p].upd)
               /\ proc' = [proc EXCEPT ![p] =
                             GaLoop([EndPass(@, "ok", @.count, articles, feeds', now) EXCEPT
                                        !.results = Append(@, SyncResult(proc[p].feed,
                                                              proc[p].count, "success", ""))],
                                    @.i + 1, articles, feeds', now)]
    /\ UNCHANGED <<now, articles, tx, served, hist>>

(***************************************************************************)
(* A direct caller of ArticleDao.bulkCreate: any batch, any stored content, *)
(* and the same batch once more                                            *)
(***************************************************************************)
\* the rows a run of the for loop leaves when no statement fails
RECURSIVE ApplyBatch(_, _)
ApplyBatch(A, batch) ==
    IF batch = << >> THEN A
    ELSE ApplyBatch(InsertOrIgnore(A, InsertParams(Head(batch))), Tail(batch))

Batches ==
    {NormalizeItems(d, f) : d \in Docs, f \in FeedIds}
    \cup {<< >>}
    \cup {NormalizeItems(d, 1) \o NormalizeItems(e, 2) : d, e \in Docs}

BatchThrows(batch) == \E j \in 1..Len(batch) : InsertParamsThrow(batch[j])

InitStores ==
    {<< >>} \cup {ApplyBatch(<< >>, b) : b \in {c \in Batches : ~BatchThrows(c)}}

DaoCall(r, batch, round, A, F, clock) ==
    [BeginPass(r, 0, A, F, clock) EXCEPT !.pc = "bc_begin", !.kind = "dao",
                                         !.batch = batch, !.round = round,
                                         !.k = 0, !.err = "", !.resp = NoResponse]

InitDao ==
    /\ now = 0
    /\ feeds = [id \in FeedIds |-> InitFeed(id)]
    /\ articles \in InitStores
    /\ tx = NoTx
    /\ \E batch \in Batches :
          proc = [p \in {1} |-> DaoCall(IdleProc, batch, 1, articles, feeds, now)]
    /\ served = 0
    /\ hist = NoHist

\* the caller runs bulkCreate again with the identical batch
DaoAgain(p) ==
    /\ proc[p].pc = "dao_returned"
    /\ proc[p].round = 1
    /\ proc' = [proc EXCEPT ![p] =
                  DaoCall([@ EXCEPT !.first = proc[p].pass], proc[p].batch, 2,
                          articles, feeds, now)]
    /\ UNCHANGED <<now, feeds, articles, tx, served, hist>>

NextDao ==
    \E p \in Procs :
       \/ BcBegin(p)
       \/ BcInsert(p)
       \/ BcCommit(p)
       \/ BcRollback(p)
       \/ DaoAgain(p)

SpecDao == InitDao /\ [][NextDao]_vars

\* the response has been sent and the handler's locals are dropped
HandlerReturn(p) ==
    /\ proc[p].pc = "done"
    /\ proc' = [proc EXCEPT ![p] = IdleProc]
    /\ UNCHANGED <<now, feeds, articles, tx, served, hist>>

(***************************************************************************)
(* The server: requests are handled one at a time                          *)
(***************************************************************************)
Next ==
    \/ Tick
    \/ \E p \in Procs :
         \/ StartManualSync(p)
         \/ RouteFindById(p)
         \/ SfFindById(p)
         \/ SfParse(p)
         \/ SfUpdate(p)
         \/ StartGlobalSync(p)
         \/ GaFindAll(p)
         \/ GaParse(p)
         \/ GaUpdate(p)
         \/ BcBegin(p)
         \/ BcInsert(p)
         \/ BcCommit(p)
         \/ BcRollback(p)
         \/ HandlerReturn(p)

Spec == Init /\ [][Next]_vars

(***************************************************************************)
(* Manual syncs only, remembering the document of each feed's last         *)
(* successful sync so that a later sync can be compared with it            *)
(***************************************************************************)
InitRepeat ==
    /\ now = 0
    /\ feeds = [id \in FeedIds |-> InitFeed(id)]
    /\ articles = << >>
    /\ tx = NoTx
    /\ proc = [p \in {1} |-> IdleProc]
    /\ served = 0
    /\ hist = [NoHist EXCEPT !.track = TRUE]

NextRepeat ==
    \/ Tick
    \/ \E p \in Procs :
         \/ StartManualSync(p)
         \/ RouteFindById(p)
         \/ SfFindById(p)
         \/ SfParse(p)
         \/ SfUpdate(p)
         \/ BcBegin(p)
         \/ BcInsert(p)
         \/ BcCommit(p)
         \/ BcRollback(p)
         \/ HandlerReturn(p)

SpecRepeat == InitRepeat /\ [][NextRepeat]_vars

(***************************************************************************)
(* One global pass, where every awaited call settles: a pending fetch or   *)
(* database call eventually returns or fails and the handler goes on.  The *)
(* pass finds each feed never synchronized or synchronized at time 0       *)
(***************************************************************************)
InitGlobal ==
    /\ now = 0
    /\ feeds \in [FeedIds -> {[InitFeed(id) EXCEPT !.last_fetched = t] :
                                 id \in FeedIds, t \in {NullTime, IsoString(0)}}]
    /\ \A id \in FeedIds : feeds[id].id = id
    /\ articles = << >>
    /\ tx = NoTx
    /\ proc = [p \in {1} |-> IdleProc]
    /\ served = 0
    /\ hist = NoHist

GlobalStep ==
    \E p \in Procs :
       \/ GaFindAll(p)
       \/ GaParse(p)
       \/ GaUpdate(p)
       \/ BcBegin(p)
       \/ BcInsert(p)
       \/ BcCommit(p)
       \/ BcRollback(p)

NextGlobal ==
    \/ Tick
    \/ \E p \in Procs : StartGlobalSync(p)
    \/ GlobalStep

SpecGlobal == InitGlobal /\ [][NextGlobal]_vars /\ WF_vars(GlobalStep)

(***************************************************************************)
(* PUT /feeds/:id and PATCH /feeds/:id                                     *)
(***************************************************************************)
\* the bodies clients send: a new title; none carries a url, so the
\* findByUrl uniqueness lookup is not taken
EditBodies == {[NoBody EXCEPT !.title = "Renamed"]}

\* PUT: updateData = {...existingFeed, title: title || existingFeed.title, ...}
PutData(existingFeed, body) ==
    [existingFeed EXCEPT
       !.title = IF body.title # Undef THEN body.title ELSE existingFeed.title,
       !.url = IF body.url # Undef THEN body.url ELSE existingFeed.url,
       !.description = IF body.description # Undef THEN body.description
                       ELSE existingFeed.description,
       !.category = IF body.category # Undef THEN body.category
                    ELSE existingFeed.category]

\* PATCH: updateData = {...existingFeed, ...(title && {title}), ...}
PatchData(existingFeed, body) ==
    LET t == IF body.title # Undef THEN [existingFeed EXCEPT !.title = body.title]
             ELSE existingFeed
        u == IF body.url # Undef THEN [t EXCEPT !.url = body.url] ELSE t
        d == IF body.description # Undef THEN [u EXCEPT !.description = body.description]
             ELSE u
    IN  IF body.category # Undef THEN [d EXCEPT !.category = body.category] ELSE d

StartEditFeed(p) ==
    /\ CanStart(p)
    /\ \E method \in {"put", "patch"}, user \in Users, feedId \in FeedIds,
          body \in EditBodies :
          proc' = [proc EXCEPT ![p] = [IdleProc EXCEPT !.pc = "edit_findById",
                                                      !.kind = method, !.user = user,
                                                      !.feedId = feedId, !.body = body]]
    /\ UNCHANGED <<now, feeds, articles, tx, served, hist>>

\* existingFeed = await findById(feedId); the checks; updateData; and the
\* evaluation of update's parameter list, which throws on a last_fetched
\* that is the column's string
EditFindById(p) ==
    /\ proc[p].pc = "edit_findById"
    /\ LET r == proc[p]
           existingFeed == findById(feeds, r.feedId)
           updateData == IF r.kind = "put" THEN PutData(existingFeed, r.body)
                         ELSE PatchData(existingFeed, r.body)
       IN  proc' = [proc EXCEPT ![p] =
                IF existingFeed = NoFeed
                THEN Respond(r, Response(404, MsgFeedNotFound))
                ELSE IF existingFeed.user_id # r.user
                THEN Respond(r, Response(401, MsgUpdateOwn))
                ELSE IF UpdateParamsThrow(updateData)
                THEN Respond([r EXCEPT !.feed = existingFeed],
                             Response(500, ErrNotAFunction))
                ELSE [r EXCEPT !.pc = "edit_update", !.feed = existingFeed,
                               !.upd = UpdateParams(r.feedId, updateData)]]
    /\ UNCHANGED <<now, feeds, articles, tx, served, hist>>

\* updated = await rssFeeds.update(feedId, updateData)
EditUpdate(p) ==
    /\ proc[p].pc = "edit_update"
    /\ feeds' = UpdateFeed(feeds, proc[p].upd)
    /\ proc' = [proc EXCEPT ![p] =
                  IF proc[p].upd.id \in DOMAIN feeds
                     /\ feeds[proc[p].upd.id].user_id = proc[p].upd.user_id
                  THEN Respond(@, Response(200, MsgUpdated))
                  ELSE Respond(@, Response(500, MsgUpdateFailed))]
    /\ UNCHANGED <<now, articles, tx, served, hist>>

(***************************************************************************)
(* DELETE /feeds/:id                                                       *)
(***************************************************************************)
\* RssFeedDao.delete: DELETE FROM rss_feeds WHERE id = ?.  The articles
\* table declares feed_id ... ON DELETE CASCADE, but the connection never
\* turns foreign-key enforcement on, so only the rss_feeds row goes
DeleteFeedRow(F, id) == [f \in DOMAIN F \ {id} |-> F[f]]

\* what the DELETE on rss_feeds does to the articles table: nothing
DeleteArticles(A, id) == A

StartDeleteFeed(p) ==
    /\ CanStart(p)
    /\ \E user \in Users, feedId \in FeedIds :
          proc' = [proc EXCEPT ![p] = [IdleProc EXCEPT !.pc = "del_findById",
                                                      !.kind = "delete", !.user = user,
                                                      !.feedId = feedId]]
    /\ UNCHANGED <<now, feeds, articles, tx, served, hist>>

DelFindById(p) ==
    /\ proc[p].pc = "del_findById"
    /\ LET r == proc[p]
           feed == findById(feeds, r.feedId)
       IN  proc' = [proc EXCEPT ![p] =
                IF feed = NoFeed
                THEN Respond(r, Response(404, MsgFeedNotFound))
                ELSE IF feed.user_id # r.user
                THEN Respond(r, Response(401, MsgDeleteOwn))
                ELSE [r EXCEPT !.pc = "del_run", !.feed = feed]]
    /\ UNCHANGED <<now, feeds, articles, tx, served, hist>>

DelRun(p) ==
    /\ proc[p].pc = "del_run"
    /\ feeds' = DeleteFeedRow(feeds, proc[p].feedId)
    /\ articles' = DeleteArticles(articles, proc[p].feedId)
    /\ proc' = [proc EXCEPT ![p] =
                  IF proc[p].feedId \in DOMAIN feeds
                  THEN Respond(@, Response(200, MsgDeleted))
                  ELSE Respond(@, Response(500, MsgDeleteFailed))]
    /\ UNCHANGED <<now, tx, served, hist>>

(***************************************************************************)
(* Two overlapping requests: while one handler awaits, the event loop runs *)
(* the other; both use the one connection.  Each handler serves a single   *)
(* request, in any order and interleaving, from the initial store          *)
(***************************************************************************)
InitConc ==
    /\ now = 0
    /\ feeds = [id \in FeedIds |-> InitFeed(id)]
    /\ articles = << >>
    /\ tx = NoTx
    /\ proc = [p \in {1, 2} |-> IdleProc]
    /\ served = 0
    /\ hist = NoHist

NextConc ==
    \E p \in Procs :
       \/ StartManualSync(p)
       \/ RouteFindById(p)
       \/ SfFindById(p)
       \/ SfParse(p)
       \/ SfUpdate(p)
       \/ StartGlobalSync(p)
       \/ GaFindAll(p)
       \/ GaParse(p)
       \/ GaUpdate(p)
       \/ BcBegin(p)
       \/ BcInsert(p)
       \/ BcCommit(p)
       \/ BcRollback(p)
       \/ StartEditFeed(p)
       \/ EditFindById(p)
       \/ EditUpdate(p)
       \/ StartDeleteFeed(p)
       \/ DelFindById(p)
       \/ DelRun(p)

SpecConc == InitConc /\ [][NextConc]_vars

(***************************************************************************)
(* Properties                                                              *)
(***************************************************************************)
DaoReturned(p) == proc[p].kind = "dao" /\ proc[p].pc = "dao_returned"

\* C1: running bulkCreate twice in a row with an identical batch inserts the
\* batch once: the store after the second run equals the store after the
\* first run and the second run returns 0.
C1_SecondRunInsertsNothing ==
    \A p \in Procs :
       (DaoReturned(p) /\ proc[p].round = 2
          /\ proc[p].first.outcome = "ok" /\ proc[p].pass.outcome = "ok")
       => (articles = proc[p].first.A1 /\ proc[p].pass.count = 0)

\* C2: bulkCreate returns the number of rows it actually inserted (rows
\* present after the call that were absent before it), not the batch size.
C2_ReturnsInsertedCount ==
    \A p \in Procs :
       (DaoReturned(p) /\ proc[p].pass.outcome = "ok")
       => proc[p].pass.count = Len(proc[p].pass.A1) - Len(proc[p].pass.A0)

\* C3: no two persisted article rows have the same identity key (link),
\* whatever sync passes ran and whatever feeds the entries came from.
C3_IdentityUnique ==
    \A i, j \in 1..Len(Committed) :
       i # j => Committed[i].link # Committed[j].link

\* C4: once an article row is persisted no later sync pass changes any of
\* its fields or removes it: the persisted rows only grow at the end.
C4_RowsNeverRefreshed ==
    [][\A j \in 1..Len(Committed) :
          j <= Len(Committed') /\ Committed'[j] = Committed[j]]_vars

\* some pass has re-ingested a key whose stored row differs from the entry,
\* and the stored row is still what it was
C4_Witness ==
    \E p \in Procs :
       /\ proc[p].pass.outcome = "ok"
       /\ \E j \in 1..Len(proc[p].batch), i \in 1..Len(proc[p].pass.A0) :
             /\ proc[p].pass.A0[i].link = proc[p].batch[j].link
             /\ proc[p].pass.A0[i] # InsertParams(proc[p].batch[j])
             /\ i <= Len(articles) /\ articles[i] = proc[p].pass.A0[i]

\* C5: bulkCreate is atomic: when a statement of the batch fails nothing of
\* the batch is committed, the store is what it was before the call and the
\* error reaches the caller; otherwise every eligible row is committed, and
\* until then none is.
C5_BulkCreateAtomic ==
    \A p \in Procs :
       proc[p].kind = "dao" =>
          /\ (proc[p].pc = "dao_returned" /\ proc[p].pass.outcome = "storage")
                => /\ articles = proc[p].pass.A0
                   /\ ~tx.active
                   /\ proc[p].resp.message \in {ErrIo, ErrInvalidTime, ErrNoTxRollback}
          /\ (proc[p].pc = "dao_returned" /\ proc[p].pass.outcome = "ok")
                => /\ articles = ApplyBatch(proc[p].pass.A0, proc[p].batch)
                   /\ ~tx.active
          /\ proc[p].pc # "dao_returned" => Committed = proc[p].pass.A0

\* a statement failed after an earlier INSERT of the same batch had added a
\* row, and the call has returned the error
C5_Witness ==
    \E p \in Procs :
       /\ DaoReturned(p) /\ proc[p].pass.outcome = "storage"
       /\ proc[p].k >= 2
       /\ ~ConstraintViolated(proc[p].pass.A0, InsertParams(proc[p].batch[1]))
       /\ articles = proc[p].pass.A0

GateSpec(g) ==
    \/ g.force
    \/ ~TruthyTime(g.last_fetched)
    \/ g.now - g.last_fetched.ms >= MinIntervalMs

\* C6: every sync gate (manual route, global synchronizer) decides eligible
\* iff force is set, or the feed was never synchronized, or at least 300
\* seconds have elapsed since the last synchronization.
C6_GateCorrect ==
    \A p \in Procs : \A n \in 1..Len(proc[p].gates) :
       proc[p].gates[n].eligible <=> GateSpec(proc[p].gates[n])

Gated(p) ==
    /\ proc[p].kind = "manual" /\ proc[p].pc = "done"
    /\ proc[p].pass.outcome = "gated"

RemainingMs(g) == MinIntervalMs - (g.now - g.last_fetched.ms)

\* C7: a rejection by the manual gate reports the remaining wait, the minimum
\* interval minus the elapsed time rounded up to the reporting unit (whole
\* minutes); it is positive and never exceeds the minimum interval.
C7_RemainingWait ==
    \A p \in Procs :
       Gated(p) =>
          LET g == proc[p].gates[Len(proc[p].gates)]
              reported == proc[p].resp.remaining * MsPerMinute
          IN /\ reported >= RemainingMs(g)
             /\ reported - MsPerMinute < RemainingMs(g)
             /\ proc[p].resp.remaining > 0
             /\ reported <= MinIntervalMs

\* a rejection whose remaining time is not a whole number of minutes
C7_Witness ==
    \E p \in Procs :
       /\ Gated(p)
       /\ proc[p].resp.remaining * MsPerMinute
             > RemainingMs(proc[p].gates[Len(proc[p].gates)])

\* the owner's unforced manual sync of a feed whose last successful manual
\* sync responded less than the minimum interval before the route ran
ResyncWithinInterval(p) ==
    /\ proc[p].kind = "manual" /\ proc[p].pc # "route_findById"
    /\ ~proc[p].force
    /\ proc[p].feedId \in DOMAIN feeds
    /\ proc[p].user = feeds[proc[p].feedId].user_id
    /\ proc[p].prior.tag = "date"
    /\ proc[p].routeAt - proc[p].prior.ms < MinIntervalMs

\* C8: after a successful manual sync of a feed, a further manual sync of it
\* without force within 5 minutes is rejected as recently synchronized (400)
\* and performs no fetch, inserts nothing and leaves the feed record alone.
C8_ResyncRejected ==
    \A p \in Procs :
       ResyncWithinInterval(p) =>
          /\ proc[p].pc = "done"
          /\ proc[p].resp.status = 400 /\ proc[p].resp.message = MsgRecent
          /\ proc[p].fetched = 0
          /\ articles = proc[p].pass.A0
          /\ feeds = proc[p].pass.F0

\* such an attempt made some time after the successful sync
C8_Witness ==
    \E p \in Procs :
       /\ ResyncWithinInterval(p)
       /\ proc[p].routeAt > proc[p].prior.ms
       /\ proc[p].resp.status = 400
       /\ articles # << >>

\* a manual sync whose feed id was not in the table when the request came
SyncOfMissingFeed(p) ==
    /\ proc[p].kind = "manual" /\ proc[p].pc # "route_findById"
    /\ proc[p].feedId \notin DOMAIN proc[p].pass.F0

\* C9: a single-feed sync of a feed id that does not exist fails with 404
\* NotFound whatever the force flag, and changes neither the article store
\* nor any feed record.
C9_MissingFeedNotFound ==
    \A p \in Procs :
       SyncOfMissingFeed(p) =>
          /\ proc[p].pc = "done"
          /\ proc[p].resp.status = 404 /\ proc[p].resp.message = MsgNotFound
          /\ proc[p].fetched = 0
          /\ articles = proc[p].pass.A0
          /\ feeds = proc[p].pass.F0

\* a forced sync of a missing feed answered while rows are stored
C9_Witness ==
    \E p \in Procs :
       /\ SyncOfMissingFeed(p) /\ proc[p].force
       /\ proc[p].resp.status = 404
       /\ articles # << >>

\* C10: when the fetch or the parse of a feed fails, the pass ends without
\* having changed the article store or the feeds table (in particular the
\* feed's last_fetched), in a single-feed sync and inside a global pass.
C10_FailedFetchMutatesNothing ==
    \A p \in Procs :
       proc[p].pass.outcome \in {"fetch", "parse"} =>
          /\ proc[p].pass.A1 = proc[p].pass.A0
          /\ proc[p].pass.F1 = proc[p].pass.F0
          /\ proc[p].kind = "manual" =>
                (articles = proc[p].pass.A0 /\ feeds = proc[p].pass.F0)

\* a parse failure inside a global pass over a non-empty store, and a fetch
\* failure of a manual sync of a feed that was synchronized before
C10_Witness ==
    \E p \in Procs :
       \/ /\ proc[p].kind = "global" /\ proc[p].pass.outcome = "parse"
          /\ proc[p].pass.A0 # << >>
          /\ proc[p].pass.feedId = 2
       \/ /\ proc[p].kind = "manual" /\ proc[p].pass.outcome = "fetch"
          /\ TruthyTime(proc[p].pass.F0[proc[p].feedId].last_fetched)
          /\ proc[p].pass.A0 # << >>

\* a sync pass (manual, or one feed of a global pass) that ended successfully
PassOk(p) ==
    /\ proc[p].kind \in {"manual", "global"}
    /\ proc[p].pass.outcome = "ok"

\* C11: after every sync pass whose bulk write succeeded and which ended
\* successfully, the feed's stored last_fetched is present, is the time of
\* the pass's update (the current time) and is not earlier than its start.
C11_StampedOnSuccess ==
    \A p \in Procs :
       PassOk(p) =>
          LET stamp == proc[p].pass.F1[proc[p].pass.feedId].last_fetched
          IN /\ stamp.tag = "iso"
             /\ stamp.ms >= proc[p].pass.t0
             /\ stamp.ms = proc[p].pass.t1

\* a successful pass, manual and inside a global pass, whose fetch took time
\* and which replaced an older timestamp
C11_Witness ==
    \E p \in Procs :
       /\ PassOk(p)
       /\ proc[p].pass.t1 > proc[p].pass.t0
       /\ proc[p].pass.F0[proc[p].pass.feedId].last_fetched.tag = "iso"
       /\ proc[p].pass.F0[proc[p].pass.feedId].last_fetched.ms < proc[p].pass.t0

\* the identity keys (links as bound to the statement) of a document
DocKeys(doc) == {BindText(doc[j].link) : j \in 1..Len(doc)}

StoredKeys(A) == {A[j].link : j \in 1..Len(A)}

\* an unforced manual sync of a never-synchronized feed that has answered,
\* started on a store holding none of the document's keys
FirstSyncAnswered(p) ==
    /\ proc[p].kind = "manual" /\ proc[p].pc = "done"
    /\ ~proc[p].force
    /\ proc[p].rfeed # NoFeed
    /\ ~TruthyTime(proc[p].rfeed.last_fetched)
    /\ proc[p].pass.outcome = "ok"
    /\ DocKeys(proc[p].pass.doc) \cap StoredKeys(proc[p].pass.A0) = {}

\* C12: the first sync of a fresh feed with force=false is not gated and
\* returns an inserted count equal to the number of distinct identity keys
\* of the document, also when the document repeats an entry.
C12_FirstSyncCountsDistinct ==
    \A p \in Procs :
       /\ \A n \in 1..Len(proc[p].gates) :
             (proc[p].gates[n].site = "manual"
                /\ ~TruthyTime(proc[p].gates[n].last_fetched))
             => proc[p].gates[n].eligible
       /\ FirstSyncAnswered(p) =>
             proc[p].resp.articlesCount = Cardinality(DocKeys(proc[p].pass.doc))

\* a successful manual sync whose document is the one the feed's previous
\* successful sync ingested
RepeatedPass(p) ==
    /\ proc[p].kind = "manual" /\ proc[p].pass.outcome = "ok"
    /\ proc[p].priorDoc.known
    /\ proc[p].priorDoc.items = proc[p].pass.doc

\* C13: when a feed is synchronized twice and its document is unchanged
\* between the passes, the second pass reports 0 newly inserted articles
\* and leaves the article store unchanged.
C13_SecondPassInsertsNothing ==
    \A p \in Procs :
       RepeatedPass(p) =>
          /\ proc[p].pass.count = 0
          /\ proc[p].pass.A1 = proc[p].pass.A0

\* a gate evaluation on a feed synchronized less than the minimum interval ago
Recent(g) ==
    /\ TruthyTime(g.last_fetched)
    /\ g.now - g.last_fetched.ms < MinIntervalMs

RowsOf(A, f) == SelectSeq(A, LAMBDA row : row.feed_id = f)

ResultsFor(results, f) == {j \in 1..Len(results) : results[j].feedId = f}

\* the recently synchronized feeds a global pass has met so far
SkippedBy(p) ==
    {proc[p].gates[n].feedId : n \in {m \in 1..Len(proc[p].gates) :
                                      /\ proc[p].gates[m].site = "global"
                                      /\ Recent(proc[p].gates[m])}}

\* C14: the global pass never forces: a feed synchronized less than the
\* minimum interval ago is not eligible, gets exactly one outcome (success,
\* articlesCount 0), no pass is started and no fetch made for it, and no
\* step of the global pass changes its record or its articles.
C14_GlobalNeverForces ==
    /\ [](\A p \in Procs : proc[p].kind = "global" =>
            /\ \A n \in 1..Len(proc[p].gates) :
                 LET g == proc[p].gates[n] IN
                   Recent(g) =>
                      /\ ~g.eligible
                      /\ feeds[g.feedId].last_fetched = g.last_fetched
                      /\ proc[p].pass.feedId # g.feedId
                      /\ \E j \in 1..Len(proc[p].results) :
                            /\ ResultsFor(proc[p].results, g.feedId) = {j}
                            /\ proc[p].results[j].status = "success"
                            /\ proc[p].results[j].articlesCount = 0
            /\ proc[p].fetched
                  <= Cardinality({n \in 1..Len(proc[p].gates) : proc[p].gates[n].eligible}))
    /\ [][\A p \in Procs : \A f \in SkippedBy(p) :
             (proc[p].kind = "global" /\ proc'[p].kind = "global")
             => /\ feeds'[f] = feeds[f]
                /\ RowsOf(articles', f) = RowsOf(articles, f)]_vars

\* a global pass that skipped a feed synchronized one tick ago, which has
\* articles, and synchronized the other feed
C14_Witness ==
    \E p \in Procs :
       /\ proc[p].kind = "global" /\ proc[p].pc = "done"
       /\ proc[p].resp.status = 200
       /\ proc[p].fetched >= 1
       /\ \E f \in SkippedBy(p) :
             /\ RowsOf(articles, f) # << >>
             /\ now > feeds[f].last_fetched.ms

\* a global pass that entered its loop and has answered
GlobalAnswered(p) ==
    /\ proc[p].kind = "global" /\ proc[p].pc = "done"
    /\ Len(proc[p].gates) >= 1

\* C15: a failing feed does not abort the global pass: the pass answers with
\* a report, the failed feed has exactly one outcome, of status error with an
\* error text, every feed (also those after it) has been processed, and each
\* feed's gate decision and outcome kind depend on its own record only.
C15_FailureIsolated ==
    \A p \in Procs :
       GlobalAnswered(p) =>
          LET r == proc[p] IN
          /\ r.resp.status = 200
          /\ Len(r.results) = Len(r.feedList)
          /\ Len(r.gates) = Len(r.feedList)
          /\ \A j \in 1..Len(r.results) :
                /\ r.results[j].feedId = r.feedList[j].id
                /\ r.gates[j].feedId = r.feedList[j].id
                /\ r.gates[j].last_fetched = r.feedList[j].last_fetched
                /\ r.gates[j].eligible <=>
                      (\/ ~TruthyTime(r.feedList[j].last_fetched)
                       \/ r.gates[j].now - r.feedList[j].last_fetched.ms > MinIntervalMs)
                /\ ~r.gates[j].eligible =>
                      (r.results[j].status = "success" /\ r.results[j].articlesCount = 0)
                /\ r.results[j].status \in {"success", "error"}
                /\ r.results[j].status = "error" =>
                      /\ r.results[j].error # ""
                      /\ r.results[j].articlesCount = 0
                      /\ ResultsFor(r.results, r.results[j].feedId) = {j}
                /\ r.results[j].status = "success" => r.results[j].error = ""

\* the first feed failed and the second was synchronized and stored rows
C15_Witness ==
    \E p \in Procs :
       /\ GlobalAnswered(p)
       /\ Len(proc[p].results) = 2
       /\ proc[p].results[1].status = "error"
       /\ proc[p].results[2].status = "success"
       /\ proc[p].results[2].articlesCount > 0
       /\ RowsOf(articles, 2) # << >>

\* a global pass that has answered with its report
Reported(p) ==
    /\ proc[p].kind = "global" /\ proc[p].pc = "done"
    /\ proc[p].resp.status = 200

RECURSIVE SumSuccess(_)
SumSuccess(results) ==
    IF results = << >> THEN 0
    ELSE (IF Head(results).status = "success" THEN Head(results).articlesCount ELSE 0)
         + SumSuccess(Tail(results))

\* C16: in every report, newArticles equals the sum of articlesCount over
\* the outcomes of status success, also when a feed's bulk write succeeded
\* and its timestamp update then failed.
C16_AggregateAccounting ==
    \A p \in Procs :
       Reported(p) =>
          proc[p].resp.report.newArticles = SumSuccess(proc[p].resp.report.results)

\* C17: a global pass that returns a report holds exactly one outcome per
\* feed returned by findAll, in iteration order; while the pass runs, the
\* outcomes so far are those of the feeds before the current one.
C17_OutcomesCompleteOrdered ==
    \A p \in Procs :
       /\ Reported(p) =>
             LET rep == proc[p].resp.report IN
             /\ Len(rep.results) = Len(proc[p].feedList)
             /\ \A j \in 1..Len(rep.results) :
                   rep.results[j].feedId = proc[p].feedList[j].id
             /\ \A j, k \in 1..Len(rep.results) :
                   rep.results[j].feedId = rep.results[k].feedId => j = k
             /\ {proc[p].feedList[j].id : j \in 1..Len(proc[p].feedList)} = DOMAIN feeds
       /\ (proc[p].kind = "global" /\ proc[p].pc \notin {"ga_findAll", "done"}) =>
             /\ Len(proc[p].results) = proc[p].i - 1
             /\ \A j \in 1..Len(proc[p].results) :
                   proc[p].results[j].feedId = proc[p].feedList[j].id

\* a report whose first feed was synchronized with new articles and whose
\* second feed was skipped by the gate
C17_Witness ==
    \E p \in Procs :
       /\ Reported(p)
       /\ Len(proc[p].resp.report.results) = 2
       /\ proc[p].resp.report.results[1].articlesCount > 0
       /\ proc[p].gates[1].eligible /\ ~proc[p].gates[2].eligible

\* C18: in every report totalFeeds is the number of outcomes,
\* successfulSyncs the number of success outcomes, failedSyncs the number
\* of error outcomes, and successfulSyncs + failedSyncs = totalFeeds.
C18_ReportCounts ==
    \A p \in Procs :
       Reported(p) =>
          LET rep == proc[p].resp.report IN
          /\ rep.totalFeeds = Len(rep.results)
          /\ rep.successfulSyncs
                = Cardinality({j \in 1..Len(rep.results) : rep.results[j].status = "success"})
          /\ rep.failedSyncs
                = Cardinality({j \in 1..Len(rep.results) : rep.results[j].status = "error"})
          /\ rep.successfulSyncs + rep.failedSyncs = rep.totalFeeds

\* a report with one success and one failure
C18_Witness ==
    \E p \in Procs :
       /\ Reported(p)
       /\ proc[p].resp.report.successfulSyncs = 1
       /\ proc[p].resp.report.failedSyncs = 1

\* C19: a manual sync tells the caller the kind of failure: a fetch failure
\* as 'Could not fetch RSS feed', a parse failure as 'Invalid RSS feed
\* format', a storage failure as 'Failed to synchronize feed'.
C19_ErrorKindExposed ==
    \A p \in Procs :
       (proc[p].kind = "manual" /\ proc[p].pc = "done") =>
          /\ proc[p].pass.outcome = "fetch" => proc[p].resp.message = MsgFetchFailed
          /\ proc[p].pass.outcome = "parse" => proc[p].resp.message = MsgBadFormat
          /\ proc[p].pass.outcome \in {"storage", "update"}
                => proc[p].resp.message = MsgSyncFailed

\* an entry whose publication date is absent or does not parse
Dateless(item) ==
    \/ item.pubDate = Undef
    \/ NewDateFromString(item.pubDate) = InvalidDate

\* C20: an entry whose publication date is absent or unparseable never makes
\* a pass fail: no pass ends on the date's error, and after a successful
\* pass the entry's key is stored, a row inserted for it by this pass
\* carrying no publication date.
C20_DatelessEntryTolerated ==
    \A p \in Procs :
       /\ proc[p].err # ErrInvalidTime
       /\ PassOk(p) =>
             \A j \in 1..Len(proc[p].pass.doc) :
                Dateless(proc[p].pass.doc[j]) =>
                   \E i \in 1..Len(proc[p].pass.A1) :
                      /\ proc[p].pass.A1[i].link = BindText(proc[p].pass.doc[j].link)
                      /\ i > Len(proc[p].pass.A0) => proc[p].pass.A1[i].pub_date = NullTime

\* the identity key an entry must get: its link, else its GUID
KeyOf(item) == IF item.link # Undef THEN item.link ELSE item.guid

\* a handler holding the batch normalized from the document it fetched
HoldsBatch(p) ==
    /\ proc[p].kind \in {"manual", "global"}
    /\ proc[p].pass.doc # << >>
    /\ Len(proc[p].batch) = Len(proc[p].pass.doc)

\* C21: every article produced by normalization has as identity key the
\* entry's link when there is one and the entry's GUID when the link is
\* absent and a GUID is present; for such entries it is never undefined.
C21_IdentityKeySelected ==
    \A p \in Procs :
       HoldsBatch(p) =>
          \A j \in 1..Len(proc[p].batch) :
             KeyOf(proc[p].pass.doc[j]) # Undef =>
                /\ proc[p].batch[j].link = KeyOf(proc[p].pass.doc[j])
                /\ proc[p].batch[j].link # Undef

\* C22: an entry with neither link nor GUID is dropped by normalization: no
\* persisted article lacks both, so that repeated passes over a document
\* with such entries cannot grow the store.
C22_KeylessEntryDropped ==
    /\ \A p \in Procs :
          HoldsBatch(p) =>
             \A j \in 1..Len(proc[p].batch) :
                ~(proc[p].batch[j].link = Undef /\ proc[p].batch[j].guid = Undef)
    /\ \A i \in 1..Len(Committed) :
          ~(Committed[i].link = Null /\ Committed[i].guid = Null)

\* a handler is inside a sync pass for feed f: past the gate (the route's
\* check or shouldSync) and not yet past RssFeedDao.update
InFlight(p, f) ==
    \/ /\ proc[p].kind = "manual" /\ proc[p].feedId = f
       /\ proc[p].pc \in {"sf_findById", "sf_parse", "bc_begin", "bc_insert",
                          "bc_commit", "bc_rollback", "sf_update"}
    \/ /\ proc[p].kind = "global" /\ proc[p].feed.id = f
       /\ proc[p].pc \in {"ga_parse", "bc_begin", "bc_insert",
                          "bc_commit", "bc_rollback", "ga_update"}

\* C23: at no time are two sync passes for the same feed in flight between
\* the gate check and the last-synchronized update
C23_OnePassPerFeed ==
    \A p, q \in Procs : \A f \in FeedIds :
       p # q => ~(InFlight(p, f) /\ InFlight(q, f))

\* C24: a pass's bulkCreate works inside a transaction of its own: while it
\* inserts and commits, the open transaction is the one it began, and a
\* ROLLBACK it issues ends no transaction begun by the other pass, so one
\* pass's failure cannot undo, lose or half-commit the other's inserts
C24_RollbackIsOwn ==
    /\ [](\A p \in Procs : proc[p].pc \in {"bc_insert", "bc_commit"}
                              => tx.active /\ tx.owner = p)
    /\ [][\A p \in Procs :
            (proc[p].pc = "bc_rollback" /\ proc'[p].pc # "bc_rollback" /\ tx.active)
               => tx.owner = p]_vars

\* a PUT or PATCH handler's step
EditStep(p) ==
    /\ proc[p].kind \in {"put", "patch"}
    /\ proc'[p] # proc[p]

\* C25: the last-synchronized timestamp is written by the sync engine only:
\* no step of a PUT or PATCH of a feed changes any feed's last_fetched,
\* whatever the interleaving with sync passes
C25_EditKeepsTimestamp ==
    [][\A p \in Procs : EditStep(p) =>
          \A f \in DOMAIN feeds \cap DOMAIN feeds' :
             feeds'[f].last_fetched = feeds[f].last_fetched]_vars

\* a sync pass's RssFeedDao.update step
SyncUpdateStep(p) ==
    /\ proc[p].pc \in {"sf_update", "ga_update"}
    /\ proc'[p] # proc[p]

\* C29: a sync pass changes a feed's last_fetched and nothing else: across
\* the pass's update the feed's title, url, description and category stay
\* what the most recent user update left in the table
C29_SyncKeepsUserFields ==
    [][\A p \in Procs : SyncUpdateStep(p) =>
          \A f \in DOMAIN feeds \cap DOMAIN feeds' :
             [feeds'[f] EXCEPT !.last_fetched = feeds[f].last_fetched] = feeds[f]]_vars

\* C28: deleting a feed deletes its articles, also when a sync pass for the
\* feed is in flight: the committed store never holds an article whose
\* feed is gone
C28_NoOrphanArticles ==
    ~tx.active => \A j \in 1..Len(articles) : articles[j].feed_id \in DOMAIN feeds

\* RssService.synchronizeFeed(feedId) run from store (A, F) on a fetched
\* document, when no database statement fails: the feed is loaded, the
\* items are mapped and written, and the feed is stamped with the clock
SynchronizeFeedEffect(A, F, feedId, items, clock) ==
    LET feed == findById(F, feedId)
        batch == NormalizeItems(items, feedId)
        stamped == [feed EXCEPT !.last_fetched = DateObj(clock)]
    IN  IF feed = NoFeed \/ BatchThrows(batch)
        THEN [ok |-> FALSE, count |-> 0, A |-> A, F |-> F]
        ELSE [ok |-> TRUE, count |-> Len(batch), A |-> ApplyBatch(A, batch),
              F |-> UpdateFeed(F, UpdateParams(feedId, stamped))]

\* a global pass has completed its per-feed work on a feed while the other
\* handler, if any, served no sync request
InlineDone(p) ==
    /\ proc[p].kind = "global"
    /\ proc[p].pass.outcome = "ok"
    /\ \A q \in Procs \ {p} : proc[q].kind \in {"none", "put", "patch", "delete"}

\* C27: the per-feed work the global pass does inline is what synchronizeFeed
\* does: from the store and document the inline work started with,
\* synchronizeFeed succeeds too, leaves the same articles of the feed, the
\* same last_fetched and reports the same count
C27_InlineMatchesSynchronizeFeed ==
    \A p \in Procs :
       InlineDone(p) =>
          LET f == proc[p].pass.feedId
              eff == SynchronizeFeedEffect(proc[p].pass.A0, proc[p].pass.F0, f,
                                           proc[p].pass.doc, proc[p].pass.t1)
          IN  /\ eff.ok
              /\ RowsOf(proc[p].pass.A1, f) = RowsOf(eff.A, f)
              /\ proc[p].pass.count = eff.count
              /\ f \in DOMAIN proc[p].pass.F1
                    => proc[p].pass.F1[f].last_fetched = eff.F[f].last_fetched

\* a manual pass that was cut short after bulkCreate committed: the update
\* of the feed did not take effect
Interrupted(p) ==
    /\ proc[p].kind = "manual"
    /\ proc[p].pass.outcome = "update"

\* the next completed pass of a feed whose last pass was cut short, over
\* the same document
RecoveryPass(p) ==
    /\ proc[p].kind = "manual" /\ proc[p].pass.outcome = "ok"
    /\ proc[p].priorCut.known
    /\ proc[p].priorCut.items = proc[p].pass.doc

\* C26: a pass cut short after its bulk write leaves the feed's timestamp at
\* its prior value (so the feed stays as eligible as before), and the next
\* completed pass over the unchanged document leaves the store as the
\* uninterrupted pass would have left it: it adds no row
C26_InterruptedPassRecovers ==
    \A p \in Procs :
       /\ Interrupted(p) =>
             proc[p].pass.F1[proc[p].pass.feedId].last_fetched
                = proc[p].pass.F0[proc[p].pass.feedId].last_fetched
       /\ RecoveryPass(p) => proc[p].pass.A1 = proc[p].pass.A0

\* a global pass that has its feed list and has not answered yet
InLoop(p) ==
    /\ proc[p].kind = "global"
    /\ proc[p].pc \notin {"ga_findAll", "done"}

\* C30 as stated: every global pass that ends has returned a report
C30_AlwaysReports ==
    \A p \in Procs :
       (proc[p].kind = "global" /\ proc[p].pc = "done") => proc[p].resp.status = 200

\* C30, amended: when every awaited call settles, a global pass ends; once
\* it has listed the feeds it ends with a report, whose endTime is not
\* earlier than its startTime; it fetches each feed at most once, and each
\* new attempt is for a later feed of the list (no retry)
C30_GlobalPassTerminates ==
    /\ [](\A p \in Procs :
            /\ Reported(p) =>
                  proc[p].resp.report.endTime >= proc[p].resp.report.startTime
            /\ proc[p].kind = "global" => proc[p].fetched <= Len(proc[p].feedList)
            /\ InLoop(p) => proc[p].fetched <= proc[p].i)
    /\ [][\A p \in Procs :
            (proc[p].kind = "global" /\ proc'[p].kind = "global"
               /\ proc'[p] # proc[p] /\ proc'[p].pc = "ga_parse")
               => proc'[p].i > proc[p].i]_vars
    /\ \A p \in {1} :
          /\ (proc[p].kind = "global" /\ proc[p].pc # "done") ~> (proc[p].pc = "done")
          /\ InLoop(p) ~> Reported(p)

\* a pass reported after a feed failed and the next one was synchronized
C30_Witness ==
    \E p \in Procs :
       /\ Reported(p)
       /\ Len(proc[p].resp.report.results) = 2
       /\ proc[p].resp.report.results[1].status = "error"
       /\ proc[p].resp.report.results[2].articlesCount > 0
       /\ proc[p].fetched = 2

====
